---- MODULE Spec2Model ----
(***************************************************************************)
(* Trigram fuzzy-matching and ranking engine of steerlab_tt.                *)
(*                                                                         *)
(* The build phase (module level of app.py) turns the catalogue into the   *)
(* vocabulary, the inverted trigram index, the IDF table, the weight       *)
(* matrix and its norms; get_most_relevant_choices answers a query from    *)
(* them.                                                                   *)
(*                                                                         *)
(* Numbers.  The code computes in floating point; the model computes in    *)
(* exact arithmetic over integers:                                         *)
(*   - an IDF weight 1 + ln((1+N)/(1+df)) is held in tenths, with ln taken *)
(*     from a table of round(10 * ln n);                                   *)
(*   - a norm is held as its square (the sum of the squared weights);      *)
(*   - a score dot / ||w_q|| / ||w_d|| is held as the exact fraction       *)
(*     dot^2 / (||w_q||^2 * ||w_d||^2), compared without rounding.         *)
(* Strings are TLA+ strings over a small alphabet.                         *)
(***************************************************************************)
EXTENDS Integers, Sequences, FiniteSets, TLC

VARIABLES
    df,                            \* the catalogue rows: <<[Title, title_norm]>>
    pc,                            \* "import": before the module-level build of app.py;
                                   \* "ready": built, no query being served;
                                   \* "responded": a query has been answered
    title_norm_all,                \* sorted, deduplicated normalized titles
    title_index_matching,          \* normalized title -> row
    real_norm_title_matching,      \* normalized title -> display title
    title_3grams,                  \* trigram -> posting set, in insertion order
    title_trigram_index_matching,  \* trigram -> column
    title_idfs,                    \* trigram -> IDF weight (tenths)
    title_weights,                 \* row -> column -> weight
    title_weights_norms,           \* row -> squared Euclidean norm of the row
    request,                       \* the last query served
    traversal,                     \* the order in which its candidates were visited
    scored,                        \* the score computations of the last query
    choices_and_scores,            \* the top-5 list of the last query
    response                       \* the list returned for the last query

prebuilt == <<title_3grams, title_idfs, title_weights, title_weights_norms>>
catalog == <<df, title_norm_all, title_index_matching, real_norm_title_matching,
             title_trigram_index_matching>>
query == <<request, traversal, scored, choices_and_scores, response>>
vars == <<pc, catalog, prebuilt, query>>

----------------------------------------------------------------------------
(* Bounds and input universes *)

\* longest query string
MaxLen == 7

\* most pairs given to the top-5 list on its own
MaxPuts == 6

\* characters of normalized strings
Alphabet == {"a", "b", " "}

\* the rows a downloaded catalogue may hold (Title column), in file order
PgCatalog == <<"?", "Abab", "Ababa?", "Ab, aba">>

\* a catalogue with more than five titles sharing a trigram
LongCatalog == <<"Ab", "Aba", "Abab", "Baba", "Ababab", "Aaba", "Abaa", "Baab">>

\* a catalogue whose titles hold the same two words in both orders
WordsCatalog == <<"Aba bab", "Bab aba", "Abab">>

RECURSIVE StringsOfLen(_)
StringsOfLen(n) ==
    IF n = 0 THEN {""}
    ELSE {s \o c : s \in StringsOfLen(n - 1), c \in Alphabet}

Requests == UNION {StringsOfLen(n) : n \in 0..MaxLen}

----------------------------------------------------------------------------
(* Generic helpers *)

Max(a, b) == IF a >= b THEN a ELSE b

Range(f) == {f[x] : x \in DOMAIN f}

RECURSIVE SumSeq(_)
SumSeq(s) == IF s = <<>> THEN 0 ELSE Head(s) + SumSeq(Tail(s))

\* code point order of the characters in use
CharRank(c) ==
    CASE c = " " -> 0
      [] c = "?" -> 1
      [] c = "," -> 2
      [] c = "A" -> 3
      [] c = "B" -> 4
      [] c = "a" -> 5
      [] c = "b" -> 6

\* Python's str < str
RECURSIVE StrLess(_, _)
StrLess(s, t) ==
    IF t = "" THEN FALSE
    ELSE IF s = "" THEN TRUE
    ELSE LET cs == SubSeq(s, 1, 1)
             ct == SubSeq(t, 1, 1)
         IN IF cs = ct THEN StrLess(SubSeq(s, 2, Len(s)), SubSeq(t, 2, Len(t)))
            ELSE CharRank(cs) < CharRank(ct)

\* the elements of a set of strings in ascending order
RECURSIVE SortValues(_)
SortValues(S) ==
    IF S = {} THEN <<>>
    ELSE LET m == CHOOSE x \in S : \A y \in S \ {x} : StrLess(x, y)
         IN <<m>> \o SortValues(S \ {m})

\* every order in which the elements of a set can be iterated
RECURSIVE Orders(_)
Orders(S) ==
    IF S = {} THEN {<<>>}
    ELSE UNION {{<<x>> \o o : o \in Orders(S \ {x})} : x \in S}

----------------------------------------------------------------------------
(* gutemberg_catalog_management.py: normalization *)

RECURSIVE casefold(_)
casefold(s) ==
    IF s = "" THEN ""
    ELSE LET c == SubSeq(s, 1, 1)
         IN (CASE c = "A" -> "a" [] c = "B" -> "b" [] OTHER -> c)
                \o casefold(SubSeq(s, 2, Len(s)))

\* s.translate(_TRANS_TABLE): punctuation becomes a space
RECURSIVE translate(_)
translate(s) ==
    IF s = "" THEN ""
    ELSE LET c == SubSeq(s, 1, 1)
         IN (IF c \in {"?", ","} THEN " " ELSE c) \o translate(SubSeq(s, 2, Len(s)))

\* re.sub(r"\s+", " ", s)
RECURSIVE compact_spaces(_)
compact_spaces(s) ==
    IF Len(s) < 2 THEN s
    ELSE IF SubSeq(s, 1, 1) = " " /\ SubSeq(s, 2, 2) = " "
         THEN compact_spaces(SubSeq(s, 2, Len(s)))
         ELSE SubSeq(s, 1, 1) \o compact_spaces(SubSeq(s, 2, Len(s)))

RECURSIVE strip(_)
strip(s) ==
    IF s = "" THEN ""
    ELSE IF SubSeq(s, 1, 1) = " " THEN strip(SubSeq(s, 2, Len(s)))
    ELSE IF SubSeq(s, Len(s), Len(s)) = " " THEN strip(SubSeq(s, 1, Len(s) - 1))
    ELSE s

base_normalize(s) ==
    IF s = "" THEN "" ELSE strip(compact_spaces(translate(casefold(s))))

normalize_title(title) == base_normalize(title)

\* the rows of the data frame: Title and title_norm
get_and_preprocess_catalog(titles) ==
    [r \in 1..Len(titles) |-> [Title |-> titles[r], title_norm |-> normalize_title(titles[r])]]

----------------------------------------------------------------------------
(* nlp.py *)

\* d.get(key, default)
Get(d, key, default) == IF key \in DOMAIN d.vals THEN d.vals[key] ELSE default

\* {key: index for index, key in enumerate(keys)}
Enumerate(keys) ==
    [keys |-> keys, vals |-> [key \in Range(keys) |-> (CHOOSE i \in DOMAIN keys : keys[i] = key) - 1]]

get_all_3grams_from_string(s) ==
    [i \in 1..Max(0, 1 + Len(s) - 3) |-> SubSeq(s, i, i + 2)]

\* mutant: the posting set is assigned, trigrams[t] = {elem}, not added to
AddToPostingAssign(trigrams, t, elem) ==
    IF t \in DOMAIN trigrams.vals
    THEN [trigrams EXCEPT !.vals[t] = {elem}]
    ELSE [keys |-> Append(trigrams.keys, t), vals |-> (t :> {elem}) @@ trigrams.vals]

\* trigrams[t].add(elem) on a defaultdict(set): a missing key is inserted last
AddToPosting(trigrams, t, elem) ==
    IF t \in DOMAIN trigrams.vals
    THEN [trigrams EXCEPT !.vals[t] = @ \cup {elem}]
    ELSE [keys |-> Append(trigrams.keys, t), vals |-> (t :> {elem}) @@ trigrams.vals]

\* the inner loop: for i in range(max(0, 1 + len(elem) - 3))
RECURSIVE AddElem(_, _, _, _)
AddElem(trigrams, elem, i, n) ==
    IF i > n THEN trigrams
    ELSE AddElem(AddToPosting(trigrams, SubSeq(elem, i, i + 2), elem), elem, i + 1, n)

ElemRange(elem) == Max(0, 1 + Len(elem) - 3)

RECURSIVE MatchFrom(_, _, _)
MatchFrom(trigrams, L, k) ==
    IF k > Len(L) THEN trigrams
    ELSE MatchFrom(AddElem(trigrams, L[k], 1, ElemRange(L[k])), L, k + 1)

\* a dict is its keys in insertion order and its values
EmptyDict == [keys |-> <<>>, vals |-> <<>>]

match_all_3grams_from_list(L) == MatchFrom(EmptyDict, L, 1)

\* round(10 * ln n)
Ln10(n) ==
    CASE n = 1 -> 0  [] n = 2 -> 7  [] n = 3 -> 11 [] n = 4 -> 14
      [] n = 5 -> 16 [] n = 6 -> 18 [] n = 7 -> 19 [] n = 8 -> 21
      [] n = 9 -> 22 [] n = 10 -> 23

\* 1 + ln((1 + |corpus|) / (1 + |subcorpus|)), in tenths
idf_score(corpus, subcorpus) ==
    10 + Ln10(1 + Len(corpus)) - Ln10(1 + Cardinality(subcorpus))

----------------------------------------------------------------------------
(* suggestion.py: the weight matrix *)

\* the (data, row, col) cells one title appends, one per trigram occurrence
TitleCells(title, i, idfs, sequence_trigram_index_matching) ==
    LET trigrams == get_all_3grams_from_string(title)
    IN [k \in DOMAIN trigrams |->
            [data |-> idfs.vals[trigrams[k]],
             row |-> i,
             col |-> sequence_trigram_index_matching.vals[trigrams[k]]]]

RECURSIVE AllCells(_, _, _, _)
AllCells(k, idfs, sequence_index_matching, sequence_trigram_index_matching) ==
    IF k > Len(sequence_index_matching.keys) THEN <<>>
    ELSE LET title == sequence_index_matching.keys[k]
         IN TitleCells(title, sequence_index_matching.vals[title], idfs,
                       sequence_trigram_index_matching)
            \o AllCells(k + 1, idfs, sequence_index_matching, sequence_trigram_index_matching)

\* what one cell of the matrix holds for a list of (data, row, col) entries
CellValue(cells, i, j) ==
    SumSeq([k \in DOMAIN cells |->
                IF cells[k].row = i /\ cells[k].col = j THEN cells[k].data ELSE 0])

\* csr_matrix((data, (rows, cols)), shape): entries of one cell are added up
csr_matrix(cells, nrows, ncols) ==
    [i \in 0..(nrows - 1) |-> [j \in 0..(ncols - 1) |-> CellValue(cells, i, j)]]

get_all_sequences_weights(idfs, sequence_index_matching, sequence_trigram_index_matching) ==
    csr_matrix(AllCells(1, idfs, sequence_index_matching, sequence_trigram_index_matching),
               Len(sequence_index_matching.keys),
               Len(sequence_trigram_index_matching.keys))

\* the sum of x**2 over a vector indexed from 0
RECURSIVE SumSquares(_, _)
SumSquares(v, n) ==
    IF n = 0 THEN 0 ELSE v[n - 1] * v[n - 1] + SumSquares(v, n - 1)

\* w_d.multiply(w_d).sum(), the square of the row's norm
RowNorm(w_d) == SumSquares(w_d, Cardinality(DOMAIN w_d))

----------------------------------------------------------------------------
(* suggestion.py: candidates *)

\* str.split(" ")
RECURSIVE split(_)
split(s) ==
    IF \A i \in 1..Len(s) : SubSeq(s, i, i) # " " THEN <<s>>
    ELSE LET i == CHOOSE k \in 1..Len(s) :
                     /\ SubSeq(s, k, k) = " "
                     /\ \A q \in 1..(k - 1) : SubSeq(s, q, q) # " "
         IN <<SubSeq(s, 1, i - 1)>> \o split(SubSeq(s, i + 1, Len(s)))

\* len(sequences_by_trigram.get(trigram, set())), the sort key
PostingSize(trigram, sequences_by_trigram) ==
    Cardinality(Get(sequences_by_trigram, trigram, {}))

\* sorted(...) is stable: an element goes after those whose key is not larger
RECURSIVE InsertByKey(_, _, _)
InsertByKey(sorted, x, sequences_by_trigram) ==
    IF sorted = <<>> THEN <<x>>
    ELSE IF PostingSize(Head(sorted), sequences_by_trigram) <= PostingSize(x, sequences_by_trigram)
         THEN <<Head(sorted)>> \o InsertByKey(Tail(sorted), x, sequences_by_trigram)
         ELSE <<x>> \o sorted

RECURSIVE SortedByPostingSize(_, _, _)
SortedByPostingSize(trigrams_request, k, sequences_by_trigram) ==
    IF k = 0 THEN <<>>
    ELSE InsertByKey(SortedByPostingSize(trigrams_request, k - 1, sequences_by_trigram),
                     trigrams_request[k], sequences_by_trigram)

\* mutant: the loop stops as soon as the running set is no larger than the
\* next posting set, taking the ascending order for a guarantee of inclusion
RECURSIVE IntersectFromEarlyStop(_, _, _, _)
IntersectFromEarlyStop(all_possible_choices, trigrams, k, sequences_by_trigram) ==
    IF k > Len(trigrams) THEN all_possible_choices
    ELSE IF Cardinality(all_possible_choices) <= PostingSize(trigrams[k], sequences_by_trigram)
    THEN all_possible_choices
    ELSE IntersectFromEarlyStop(
             all_possible_choices \cap Get(sequences_by_trigram, trigrams[k], {}),
             trigrams, k + 1, sequences_by_trigram)

\* for trigram in trigrams[1:]: break on an empty set, else intersect in place
RECURSIVE IntersectFrom(_, _, _, _)
IntersectFrom(all_possible_choices, trigrams, k, sequences_by_trigram) ==
    IF k > Len(trigrams) THEN all_possible_choices
    ELSE IF all_possible_choices = {} THEN all_possible_choices
    ELSE IntersectFrom(all_possible_choices \cap Get(sequences_by_trigram, trigrams[k], {}),
                       trigrams, k + 1, sequences_by_trigram)

\* mutant: the running set is the first posting set itself, not a copy, so the
\* in-place intersections land in the index
get_all_possible_choices_no_copy(trigrams_request, sequences_by_trigram) ==
    IF trigrams_request = <<>>
    THEN [choices |-> {}, sequences_by_trigram |-> sequences_by_trigram]
    ELSE LET trigrams == SortedByPostingSize(trigrams_request, Len(trigrams_request),
                                             sequences_by_trigram)
             first == Get(sequences_by_trigram, trigrams[1], {})
             final == IntersectFrom(first, trigrams, 2, sequences_by_trigram)
         IN [choices |-> final,
             sequences_by_trigram |->
                 IF trigrams[1] \in DOMAIN sequences_by_trigram.vals
                 THEN [sequences_by_trigram EXCEPT !.vals[trigrams[1]] = final]
                 ELSE sequences_by_trigram]

\* mutant: a request without trigrams constrains nothing, so every indexed
\* sequence is a candidate
get_all_possible_choices_no_guard(trigrams_request, sequences_by_trigram) ==
    IF trigrams_request = <<>>
    THEN [choices |-> UNION Range(sequences_by_trigram.vals),
          sequences_by_trigram |-> sequences_by_trigram]
    ELSE LET trigrams == SortedByPostingSize(trigrams_request, Len(trigrams_request),
                                             sequences_by_trigram)
         IN [choices |-> IntersectFrom(Get(sequences_by_trigram, trigrams[1], {}),
                                       trigrams, 2, sequences_by_trigram),
             sequences_by_trigram |-> sequences_by_trigram]

\* The set returned, and the index as the call leaves it.  The running set is a
\* copy of the first posting set, so the in-place intersections do not reach
\* the index.
get_all_possible_choices(trigrams_request, sequences_by_trigram) ==
    IF trigrams_request = <<>>
    THEN [choices |-> {}, sequences_by_trigram |-> sequences_by_trigram]
    ELSE LET trigrams == SortedByPostingSize(trigrams_request, Len(trigrams_request),
                                             sequences_by_trigram)
             copy == Get(sequences_by_trigram, trigrams[1], {})
         IN [choices |-> IntersectFrom(copy, trigrams, 2, sequences_by_trigram),
             sequences_by_trigram |-> sequences_by_trigram]

\* the generator of line 113: one call per word, each on the index the
\* previous call left
RECURSIVE WordChoices(_, _, _)
WordChoices(subrequests, k, sequences_by_trigram) ==
    IF k > Len(subrequests)
    THEN [sets |-> <<>>, sequences_by_trigram |-> sequences_by_trigram]
    ELSE LET one == get_all_possible_choices(get_all_3grams_from_string(subrequests[k]),
                                             sequences_by_trigram)
             rest == WordChoices(subrequests, k + 1, one.sequences_by_trigram)
         IN [sets |-> <<one.choices>> \o rest.sets,
             sequences_by_trigram |-> rest.sequences_by_trigram]

\* mutant: the per-word sets are united (set.union) instead of intersected
RECURSIVE set_union(_)
set_union(sets) ==
    IF Len(sets) = 1 THEN sets[1] ELSE sets[1] \cup set_union(Tail(sets))

\* set.intersection(*sets), of at least one set
RECURSIVE set_intersection(_)
set_intersection(sets) ==
    IF Len(sets) = 1 THEN sets[1] ELSE sets[1] \cap set_intersection(Tail(sets))

\* lines 110-116: posible_choices, and the index as the calls leave it
PossibleChoices(req, sequences_by_trigram) ==
    LET whole == get_all_possible_choices(get_all_3grams_from_string(req), sequences_by_trigram)
        words == WordChoices(split(req), 1, whole.sequences_by_trigram)
    IN [choices |-> whole.choices \cup set_intersection(words.sets),
        sequences_by_trigram |-> words.sequences_by_trigram]

----------------------------------------------------------------------------
(* suggestion.py: scoring and the top-5 list *)

\* line 117: one component per key of idfs, in its order
QueryVector(trigrams_request, idfs) ==
    [j \in 0..(Len(idfs.keys) - 1) |->
        IF idfs.keys[j + 1] \in Range(trigrams_request) THEN idfs.vals[idfs.keys[j + 1]] ELSE 0]

\* _norm(L), squared
Norm(L) == SumSquares(L, Cardinality(DOMAIN L))

\* w_d @ w_q
RECURSIVE DotFrom(_, _, _)
DotFrom(w_d, w_q, n) ==
    IF n = 0 THEN 0 ELSE w_d[n - 1] * w_q[n - 1] + DotFrom(w_d, w_q, n - 1)

Dot(w_d, w_q) == DotFrom(w_d, w_q, Cardinality(DOMAIN w_q))

\* mutant: the division by the stored norm is left out
ScoreNoRowNorm(choice, w_q, weights, weights_norms, indexes) ==
    LET w_d == weights[indexes.vals[choice]]
        dot == Dot(w_d, w_q)
    IN [num |-> dot * dot, den |-> Norm(w_q)]

\* lines 120-122.  The score is the fraction num / den of the squares; den = 0
\* is the division by a zero norm (0.0 / 0.0, a NaN: a zero norm makes the dot
\* product zero too).
Score(choice, w_q, weights, weights_norms, indexes) ==
    LET w_d == weights[indexes.vals[choice]]
        norm == weights_norms[indexes.vals[choice]]
        dot == Dot(w_d, w_q)
    IN [num |-> dot * dot, den |-> Norm(w_q) * norm]

\* a / b > c / d for a, c >= 0 and b, d > 0, by continued fractions
RECURSIVE FracGreater(_, _, _, _)
FracGreater(a, b, c, d) ==
    IF a \div b # c \div d THEN a \div b > c \div d
    ELSE IF a % b = 0 THEN FALSE
    ELSE IF c % d = 0 THEN TRUE
    ELSE FracGreater(d, c % d, b, a % b)

\* score > other; every comparison with a NaN is false
ScoreGreater(score, other) ==
    /\ score.den # 0
    /\ other.den # 0
    /\ FracGreater(score.num, score.den, other.num, other.den)

Zero == [num |-> 0, den |-> 1]

\* for other_rank in range(4, rank, -1): list[other_rank] = list[other_rank - 1]
RECURSIVE ShiftDown(_, _, _)
ShiftDown(list, other_rank, rank) ==
    IF other_rank <= rank THEN list
    ELSE ShiftDown([list EXCEPT ![other_rank + 1] = list[other_rank]], other_rank - 1, rank)

\* mutant: the new pair is inserted (list.insert) and nothing is dropped
put_choice_insert(choice, score, list) ==
    LET above == {rank \in 0..4 : ScoreGreater(score, list[rank + 1].score)}
    IN IF above = {} THEN list
       ELSE LET rank == CHOOSE r \in above : \A q \in above : r <= q
            IN SubSeq(list, 1, rank) \o <<[choice |-> choice, score |-> score]>>
                   \o SubSeq(list, rank + 1, Len(list))

\* mutant: the loop over the ranks goes on after the insertion (no break), so
\* the new pair is written again at every lower rank
put_choice_no_break(choice, score, list) ==
    LET above == {rank \in 0..4 : ScoreGreater(score, list[rank + 1].score)}
    IN IF above = {} THEN list
       ELSE LET rank == CHOOSE r \in above : \A q \in above : r <= q
            IN [r \in 1..5 |-> IF r >= rank + 1 THEN [choice |-> choice, score |-> score]
                                ELSE list[r]]

\* mutant: the comparison is score >= choices_and_scores[rank][1]
put_choice_not_strict(choice, score, list) ==
    LET above == {rank \in 0..4 : /\ score.den # 0
                                  /\ list[rank + 1].score.den # 0
                                  /\ ~ScoreGreater(list[rank + 1].score, score)}
    IN IF above = {} THEN list
       ELSE LET rank == CHOOSE r \in above : \A q \in above : r <= q
            IN [ShiftDown(list, 4, rank) EXCEPT ![rank + 1] = [choice |-> choice, score |-> score]]

\* ranks are 0..4 as in the code; rank r is element r + 1 of the sequence
put_choice_on_right_place(choice, score, list) ==
    LET above == {rank \in 0..4 : ScoreGreater(score, list[rank + 1].score)}
    IN IF above = {} THEN list
       ELSE LET rank == CHOOSE r \in above : \A q \in above : r <= q
            IN [ShiftDown(list, 4, rank) EXCEPT ![rank + 1] = [choice |-> choice, score |-> score]]

\* line 118
Placeholders == [rank \in 1..5 |-> [choice |-> "", score |-> Zero]]

\* the loop of lines 119-124 over the candidates in the order they are iterated
RECURSIVE RankFrom(_, _, _, _, _, _, _)
RankFrom(list, order, k, w_q, weights, weights_norms, indexes) ==
    IF k > Len(order) THEN list
    ELSE RankFrom(put_choice_on_right_place(
                      order[k], Score(order[k], w_q, weights, weights_norms, indexes), list),
                  order, k + 1, w_q, weights, weights_norms, indexes)

\* lines 125-128
Response(list, real_norm_sequence_matching, is_title) ==
    [r \in DOMAIN list |->
        [kind |-> IF is_title THEN "title" ELSE "author",
         text |-> Get(real_norm_sequence_matching, list[r].choice, "")]]

----------------------------------------------------------------------------
(* app.py: the build phase *)

RECURSIVE SubCatalogs(_)
SubCatalogs(rows) ==
    IF rows = <<>> THEN {<<>>}
    ELSE LET rest == SubCatalogs(Tail(rows))
         IN rest \cup {<<Head(rows)>> \o r : r \in rest}

Init ==
    /\ df \in {get_and_preprocess_catalog(titles) :
                    titles \in SubCatalogs(PgCatalog) \cup {LongCatalog, WordsCatalog}}
    /\ pc = "import"
    /\ title_norm_all = <<>>
    /\ title_index_matching = EmptyDict
    /\ real_norm_title_matching = EmptyDict
    /\ title_3grams = EmptyDict
    /\ title_trigram_index_matching = EmptyDict
    /\ title_idfs = EmptyDict
    /\ title_weights = <<>>
    /\ title_weights_norms = <<>>
    /\ request = ""
    /\ traversal = <<>>
    /\ scored = {}
    /\ choices_and_scores = <<>>
    /\ response = <<>>

\* df.set_index("title_norm")["Title"].to_dict(): the last row of a key wins
SetIndexToDict(rows) ==
    LET norms == {rows[r].title_norm : r \in DOMAIN rows}
        last(n) == CHOOSE r \in DOMAIN rows :
                      /\ rows[r].title_norm = n
                      /\ \A q \in DOMAIN rows : rows[q].title_norm = n => q <= r
        first == {r \in DOMAIN rows : \A q \in 1..(r - 1) : rows[q].title_norm # rows[r].title_norm}
        keys == [k \in 1..Cardinality(first) |->
                    rows[CHOOSE r \in first : Cardinality({q \in first : q <= r}) = k].title_norm]
    IN [keys |-> keys, vals |-> [n \in norms |-> rows[last(n)].Title]]

\* {trigram: idf_score(title_norm_all, title_3grams.get(trigram, set())) for trigram in title_3grams}
BuildIdfs(corpus, trigrams) ==
    [keys |-> trigrams.keys,
     vals |-> [t \in Range(trigrams.keys) |-> idf_score(corpus, Get(trigrams, t, {}))]]

\* [np.sqrt(w_d.multiply(w_d).sum()) for w_d in title_weights]
BuildNorms(weights) == [i \in DOMAIN weights |-> RowNorm(weights[i])]

Build ==
    /\ pc = "import"
    /\ pc' = "ready"
    /\ LET norm_all == SortValues({df[r].title_norm : r \in DOMAIN df})
           index_matching == Enumerate(norm_all)
           trigrams == match_all_3grams_from_list(norm_all)
           trigram_index_matching == Enumerate(trigrams.keys)
           idfs == BuildIdfs(norm_all, trigrams)
           weights == get_all_sequences_weights(idfs, index_matching, trigram_index_matching)
       IN /\ title_norm_all' = norm_all
          /\ title_index_matching' = index_matching
          /\ real_norm_title_matching' = SetIndexToDict(df)
          /\ title_3grams' = trigrams
          /\ title_trigram_index_matching' = trigram_index_matching
          /\ title_idfs' = idfs
          /\ title_weights' = weights
          /\ title_weights_norms' = BuildNorms(weights)
    /\ UNCHANGED <<df, query>>

----------------------------------------------------------------------------
(* A query: get_most_relevant_choices on the title structures *)

get_most_relevant_choices(req) ==
    /\ pc = "ready"
    /\ pc' = "responded"
    /\ LET possible == PossibleChoices(req, title_3grams)
           w_q == QueryVector(get_all_3grams_from_string(req), title_idfs)
       IN \E order \in Orders(possible.choices) :
            LET list == RankFrom(Placeholders, order, 1, w_q, title_weights,
                                 title_weights_norms, title_index_matching)
            IN /\ request' = req
               /\ traversal' = order
               /\ scored' = {[choice |-> c,
                              w_q_norm |-> Norm(w_q),
                              norm |-> title_weights_norms[title_index_matching.vals[c]],
                              score |-> Score(c, w_q, title_weights, title_weights_norms,
                                              title_index_matching)] : c \in possible.choices}
               /\ choices_and_scores' = list
               /\ response' = Response(list, real_norm_title_matching, TRUE)
               /\ title_3grams' = possible.sequences_by_trigram
    /\ UNCHANGED <<catalog, title_idfs, title_weights, title_weights_norms>>

\* a request arrives while no other is being answered
Suggest ==
    /\ pc = "ready"
    /\ \E req \in Requests : get_most_relevant_choices(req)

\* the caller has taken the response; the call's locals are gone
Return ==
    /\ pc = "responded"
    /\ pc' = "ready"
    /\ request' = ""
    /\ traversal' = <<>>
    /\ scored' = {}
    /\ choices_and_scores' = <<>>
    /\ response' = <<>>
    /\ UNCHANGED <<catalog, prebuilt>>

Next ==
    \/ Build
    \/ Suggest
    \/ Return

Spec == Init /\ [][Next]_vars

----------------------------------------------------------------------------
(* The top-5 list on its own: _put_choice_on_right_place over any pairs *)

\* the k-th pair processed carries the k-th candidate: "c", "cc", ...
RECURSIVE Candidate(_)
Candidate(k) == IF k = 1 THEN "c" ELSE Candidate(k - 1) \o "c"

\* the scores a pair may carry: 0, 1/4, 1/2 (written in two ways), 1, and the
\* NaN of a division by a zero norm
Scores == {Zero, [num |-> 1, den |-> 4], [num |-> 1, den |-> 2], [num |-> 2, den |-> 4],
           [num |-> 1, den |-> 1], [num |-> 0, den |-> 0]}

\* line 118, with nothing processed yet
RankInit ==
    /\ pc = "ranking"
    /\ df = <<>>
    /\ title_norm_all = <<>>
    /\ title_index_matching = EmptyDict
    /\ real_norm_title_matching = EmptyDict
    /\ title_3grams = EmptyDict
    /\ title_trigram_index_matching = EmptyDict
    /\ title_idfs = EmptyDict
    /\ title_weights = <<>>
    /\ title_weights_norms = <<>>
    /\ request = ""
    /\ traversal = <<>>
    /\ scored = {}
    /\ choices_and_scores = Placeholders
    /\ response = <<>>

\* one iteration of the loop of lines 119-124 with any score: line 123
PutChoice ==
    /\ pc = "ranking"
    /\ Len(traversal) < MaxPuts
    /\ \E score \in Scores :
          LET choice == Candidate(Len(traversal) + 1)
          IN /\ traversal' = Append(traversal, choice)
             /\ scored' = scored \cup {[choice |-> choice, score |-> score]}
             /\ choices_and_scores' = put_choice_on_right_place(choice, score, choices_and_scores)
    /\ UNCHANGED <<pc, catalog, prebuilt, request, response>>

RankNext == PutChoice

RankSpec == RankInit /\ [][RankNext]_vars

----------------------------------------------------------------------------
(* Vocabulary used by the properties *)

Vocabulary == Range(title_norm_all)

Built == pc # "import"

\* the width-3, stride-1 substrings of s
Contains(s, t) == \E i \in 1..(Len(s) - 2) : SubSeq(s, i, i + 2) = t

Trigrams == StringsOfLen(3) \cup Range(title_3grams.keys)

Row(e) == title_index_matching.vals[e]

Col(t) == title_trigram_index_matching.vals[t]

Candidates == {s.choice : s \in scored}

\* the score is the fraction one
IsOne(score) == score.den # 0 /\ score.num = score.den

----------------------------------------------------------------------------
(* C9 *)

\* C9: in the index built by match_all_3grams_from_list, an entry s is in the
\* posting set of a 3-character string t exactly when t is a width-3,
\* stride-1 substring of s; an entry shorter than 3 characters is in no
\* posting set, and no posting set is empty.
C9_PostingSets ==
    Built =>
        /\ \A s \in Vocabulary : \A t \in Trigrams :
              (s \in Get(title_3grams, t, {})) <=> Contains(s, t)
        /\ \A t \in DOMAIN title_3grams.vals :
              /\ title_3grams.vals[t] # {}
              /\ title_3grams.vals[t] \subseteq Vocabulary
              /\ \A s \in title_3grams.vals[t] : Len(s) >= 3
        /\ DOMAIN title_3grams.vals = Range(title_3grams.keys)

\* an index over a vocabulary with a short entry, an entry with a repeated
\* trigram and a trigram shared by several entries
C9_Witness ==
    /\ Built
    /\ \E s \in Vocabulary : Len(s) < 3
    /\ \E s \in Vocabulary : \E i, j \in 1..(Len(s) - 2) :
          i # j /\ SubSeq(s, i, i + 2) = SubSeq(s, j, j + 2)
    /\ \E t \in DOMAIN title_3grams.vals : Cardinality(title_3grams.vals[t]) >= 3

----------------------------------------------------------------------------
(* C2 *)

\* C2: the cell (row of e, column of t) of the weight matrix is idf(t) when e
\* contains t, however often, and 0 when it does not.
C2_BinaryPresence ==
    Built =>
        \A e \in Vocabulary : \A t \in Range(title_3grams.keys) :
            title_weights[Row(e)][Col(t)] = IF Contains(e, t) THEN title_idfs.vals[t] ELSE 0

----------------------------------------------------------------------------
(* C1 *)

\* C1: a query equal to a vocabulary entry of at least 3 characters puts that
\* entry at rank 0, with score 1.
C1_ExactMatchFirst ==
    (pc = "responded" /\ request \in Vocabulary /\ Len(request) >= 3) =>
        /\ choices_and_scores[1].choice = request
        /\ IsOne(choices_and_scores[1].score)

----------------------------------------------------------------------------
(* C3 *)

\* C3: every query is answered with exactly 5 slots.
C3_FiveSlots ==
    pc = "responded" => Len(response) = 5 /\ Len(choices_and_scores) = 5

\* a query with more candidates than slots has been answered
C3_Witness ==
    /\ pc = "responded"
    /\ Cardinality(Candidates) > 5
    /\ \A r \in DOMAIN response : response[r].text # ""

----------------------------------------------------------------------------
(* C4 *)

\* C4: a query shorter than 3 characters has no candidate and is answered
\* with five empty texts.
C4_ShortQueryEmpty ==
    (pc = "responded" /\ Len(request) < 3) =>
        /\ Candidates = {}
        /\ \A r \in DOMAIN response : response[r].text = ""

----------------------------------------------------------------------------
(* C5 *)

\* the answer to the last query had its candidates been iterated in `order`
AnswerInOrder(order) ==
    Response(RankFrom(Placeholders, order, 1,
                      QueryVector(get_all_3grams_from_string(request), title_idfs),
                      title_weights, title_weights_norms, title_index_matching),
             real_norm_title_matching, TRUE)

\* C5: the answer is the same for every order in which the candidate set is
\* iterated.
C5_OrderIndependent ==
    pc = "responded" => \A order \in Orders(Candidates) : AnswerInOrder(order) = response

----------------------------------------------------------------------------
(* C6 *)

\* C6: no score is computed with a zero query norm or a zero stored norm.
C6_NoZeroNorm ==
    pc = "responded" =>
        \A s \in scored : s.w_q_norm # 0 /\ s.norm # 0 /\ s.score.den # 0

\* candidates were scored over a vocabulary that has a row of norm zero
C6_Witness ==
    /\ pc = "responded"
    /\ scored # {}
    /\ \E i \in DOMAIN title_weights_norms : title_weights_norms[i] = 0

----------------------------------------------------------------------------
(* C7 *)

\* the entries that are in the posting set of every trigram of s
InEveryPostingSet(s) ==
    LET trigrams == get_all_3grams_from_string(s)
    IN IF trigrams = <<>> THEN {}
       ELSE {e \in Vocabulary :
                \A k \in DOMAIN trigrams : e \in Get(title_3grams, trigrams[k], {})}

StrategyA(req) == InEveryPostingSet(req)

StrategyB(req) ==
    LET words == split(req)
    IN {e \in Vocabulary : \A k \in DOMAIN words : e \in InEveryPostingSet(words[k])}

\* C7: the entries scored are those of strategy (a) and those of strategy (b).
C7_CandidateSet ==
    pc = "responded" =>
        /\ Candidates = StrategyA(request) \cup StrategyB(request)
        /\ Range(traversal) = Candidates

\* a query of several words whose candidates all come from strategy (b)
C7_Witness ==
    /\ pc = "responded"
    /\ Len(split(request)) > 1
    /\ StrategyA(request) = {}
    /\ Cardinality(Candidates) >= 2
    /\ Candidates # Vocabulary

----------------------------------------------------------------------------
(* C8 *)

----------------------------------------------------------------------------
(* C10 *)

\* the factors the IDF weights are multiplied by
Factors == {2, 3}

Rescaled(idfs, factor) == [idfs EXCEPT !.vals = [t \in DOMAIN idfs.vals |-> factor * idfs.vals[t]]]

\* the two scores are the same fraction
SameScore(s, t) == ~ScoreGreater(s, t) /\ ~ScoreGreater(t, s) /\ (s.den = 0 <=> t.den = 0)

\* the top-5 list of the last query, in the same traversal, with every IDF
\* weight multiplied by `factor` before the matrix, the norms and the query
\* vector are built
RescaledList(factor) ==
    LET idfs == Rescaled(title_idfs, factor)
        weights == get_all_sequences_weights(idfs, title_index_matching,
                                             title_trigram_index_matching)
    IN IF traversal = <<>> THEN Placeholders
       ELSE RankFrom(Placeholders, traversal, 1,
                     QueryVector(get_all_3grams_from_string(request), idfs),
                     weights, BuildNorms(weights), title_index_matching)

\* C10: multiplying every IDF weight by one positive constant changes neither
\* the scores nor the top-5 list.
C10_ScaleInvariant ==
    pc = "responded" =>
        \A factor \in Factors :
            LET list == RescaledList(factor)
            IN \A r \in 1..5 :
                  /\ list[r].choice = choices_and_scores[r].choice
                  /\ SameScore(list[r].score, choices_and_scores[r].score)

\* a query ranked candidates of different scores
C10_Witness ==
    /\ pc = "responded"
    /\ \E r \in 1..4 :
          /\ choices_and_scores[r + 1].choice # ""
          /\ ScoreGreater(choices_and_scores[r].score, choices_and_scores[r + 1].score)
          /\ ~IsOne(choices_and_scores[r].score)

----------------------------------------------------------------------------
(* C11 *)

\* the pairs processed so far whose score is strictly positive
PositivePairs == {s \in scored : ScoreGreater(s.score, Zero)}

\* the ranks (1..5) holding a processed pair rather than a placeholder
Placed == {r \in DOMAIN choices_and_scores : choices_and_scores[r].choice # ""}

\* the pair processed for a candidate
PairOf(choice) == CHOOSE s \in scored : s.choice = choice

\* C11: after any sequence of (candidate, score) pairs has been processed from
\* five ("", 0) placeholders, the list has length 5, its scores do not increase
\* from rank 0 to rank 4, and it holds exactly the 5 largest strictly positive
\* scores seen, each from a pair of its own, padded with ("", 0) placeholders
\* when fewer than 5 positive scores were seen.
C11_TopFive ==
    pc = "ranking" =>
        /\ Len(choices_and_scores) = 5
        /\ \A r \in 1..4 :
              ~ScoreGreater(choices_and_scores[r + 1].score, choices_and_scores[r].score)
        /\ \A r \in 1..5 :
              IF r \in Placed
              THEN /\ \E s \in PositivePairs :
                        /\ s.choice = choices_and_scores[r].choice
                        /\ s.score = choices_and_scores[r].score
                   /\ \A q \in Placed : q # r =>
                        choices_and_scores[q].choice # choices_and_scores[r].choice
              ELSE choices_and_scores[r] = [choice |-> "", score |-> Zero]
        /\ Cardinality(Placed) = IF Cardinality(PositivePairs) < 5
                                 THEN Cardinality(PositivePairs) ELSE 5
        /\ \A s \in PositivePairs :
              (\A r \in Placed : choices_and_scores[r].choice # s.choice) =>
                  \A r \in 1..5 : ~ScoreGreater(s.score, choices_and_scores[r].score)

\* more than five positive scores were seen, the largest of them last, and a
\* positive score has been pushed out of the list
C11_Witness ==
    /\ pc = "ranking"
    /\ Cardinality(PositivePairs) > 5
    /\ Cardinality(Placed) = 5
    /\ choices_and_scores[1].choice = traversal[Len(traversal)]
    /\ ScoreGreater(choices_and_scores[1].score, choices_and_scores[5].score)
    /\ \E s \in PositivePairs :
          /\ \A r \in Placed : choices_and_scores[r].choice # s.choice
          /\ ScoreGreater(choices_and_scores[5].score, s.score)

----------------------------------------------------------------------------
(* C12 *)

\* the position at which a candidate was processed
Position(choice) == CHOOSE k \in DOMAIN traversal : traversal[k] = choice

\* C12: a candidate is never placed above an entry of equal score that was
\* processed before it: of two entries of equal score in the list the one
\* processed first has the better rank, and a candidate left out of the list
\* was processed after every entry of the list that has its score (so a
\* candidate equal to the rank-4 score of a full list is discarded).
C12_FirstSeenWins ==
    pc = "ranking" =>
        /\ \A r1, r2 \in Placed :
              (r1 < r2 /\ SameScore(choices_and_scores[r1].score, choices_and_scores[r2].score))
                  => Position(choices_and_scores[r1].choice)
                         < Position(choices_and_scores[r2].choice)
        /\ \A s \in scored : \A r \in Placed :
              (/\ \A q \in Placed : choices_and_scores[q].choice # s.choice
               /\ SameScore(choices_and_scores[r].score, s.score))
                  => Position(choices_and_scores[r].choice) < Position(s.choice)

\* the list is full, its last entry and an earlier one have the same score
\* and the pair processed last, of that score too, has been discarded
C12_Witness ==
    /\ pc = "ranking"
    /\ Cardinality(Placed) = 5
    /\ SameScore(choices_and_scores[4].score, choices_and_scores[5].score)
    /\ choices_and_scores[4].score # choices_and_scores[5].score
    /\ LET last == PairOf(traversal[Len(traversal)])
       IN /\ SameScore(last.score, choices_and_scores[5].score)
          /\ \A r \in Placed : choices_and_scores[r].choice # last.choice

----------------------------------------------------------------------------
(* C13 *)

\* " ".join(words)
RECURSIVE Join(_)
Join(words) ==
    IF Len(words) = 1 THEN words[1] ELSE words[1] \o " " \o Join(Tail(words))

\* the queries made of the words of req in any order
WordPermutations(req) ==
    LET words == split(req)
    IN {Join([k \in DOMAIN order |-> words[order[k]]]) : order \in Orders(DOMAIN words)}

\* the per-word intersection of line 113, as the code computes it
PerWordIntersection(req) == set_intersection(WordChoices(split(req), 1, title_3grams).sets)

\* C13: for a query whose space-separated words all have at least 3
\* characters, every entry selected by strategy (a) is selected by strategy (b),
\* the candidate set is the per-word intersection, and every permutation of
\* the query's words gives the same candidate set.
C13_WordOrder ==
    (pc = "responded" /\ \A k \in DOMAIN split(request) : Len(split(request)[k]) >= 3) =>
        /\ StrategyA(request) \subseteq StrategyB(request)
        /\ Candidates = StrategyB(request)
        /\ Candidates = PerWordIntersection(request)
        /\ \A permuted \in WordPermutations(request) :
              PossibleChoices(permuted, title_3grams).choices = Candidates

\* a query of two different words whose strategy (a) selects an entry, fewer
\* than strategy (b) does, and another entry once the words are exchanged
C13_Witness ==
    /\ pc = "responded"
    /\ Len(split(request)) = 2
    /\ \A k \in DOMAIN split(request) : Len(split(request)[k]) >= 3
    /\ StrategyA(request) # {}
    /\ StrategyA(request) # Candidates
    /\ \E permuted \in WordPermutations(request) :
          /\ permuted # request
          /\ StrategyA(permuted) # {}
          /\ StrategyA(permuted) # StrategyA(request)

----------------------------------------------------------------------------
(* C14 *)

\* C14: if a space-separated word of the query has fewer than 3 characters
\* (an empty word between, before or after spaces included), strategy (b)
\* selects nothing, and the entries scored are exactly those of strategy (a):
\* the entries containing every trigram of the whole query string, those
\* holding a space included.
C14_ShortWord ==
    (pc = "responded" /\ \E k \in DOMAIN split(request) : Len(split(request)[k]) < 3) =>
        /\ PerWordIntersection(request) = {}
        /\ StrategyB(request) = {}
        /\ Candidates = StrategyA(request)
        /\ Candidates = IF Len(request) < 3 THEN {}
                        ELSE {e \in Vocabulary :
                                 \A i \in 1..(Len(request) - 2) :
                                     Contains(e, SubSeq(request, i, i + 2))}

\* a query with an empty word and a word of 3 characters: an entry is scored,
\* and an entry holding the word but not the trigram with the space is not
C14_Witness ==
    /\ pc = "responded"
    /\ \E k \in DOMAIN split(request) : split(request)[k] = ""
    /\ Candidates # {}
    /\ \E k \in DOMAIN split(request) :
          /\ Len(split(request)[k]) >= 3
          /\ Candidates \subseteq InEveryPostingSet(split(request)[k])
          /\ Candidates # InEveryPostingSet(split(request)[k])

====
